---- MODULE Spec2Model ----
(***************************************************************************)
(* Availability and booking engine of nx-backend: the working-hours policy *)
(* (booking_config.py), the slot generator, the booking validator, the     *)
(* OAuth2 calendar service, the service-account calendar service and the   *)
(* HTTP handlers of main.py that tie them together.                        *)
(***************************************************************************)
EXTENDS Integers, Sequences, FiniteSets, Bags, TLC

VARIABLES
    now,        \* datetime.now(): the wall clock, seconds since 2026-01-01T00:00:00
    policy,     \* the module-level configuration of booking_config.py
    call,       \* the last application of a policy function and what it returned
    creds,      \* oauth_service.creds
    service,    \* oauth_service.service is built (not None)
    token_file, \* token.json
    sa_service, \* calendar_service.service is built (service-account.json was there)
    running,    \* the modules were imported and the application serves
    events,     \* the provider's calendars
    resp,       \* the last response sent
    trace,      \* what the last request did, in order
    pending     \* the booking the event loop is in, blocked in a provider call

(***************************************************************************)
(* datetime.  A naive datetime is a number of seconds since                *)
(* 2026-01-01T00:00:00; a timedelta is a number of seconds.  Strings are   *)
(* sequences of character codes: a digit is its value, ':' is 10 (as in    *)
(* ASCII, ':' sorts after every digit), so that the code's comparisons of  *)
(* "HH:MM" strings are comparisons of sequences, character by character.   *)
(***************************************************************************)
Minute == 60
Hour == 60 * Minute
Day == 24 * Hour

IsLeap(y) == (y % 4 = 0 /\ y % 100 # 0) \/ y % 400 = 0

DaysInYear(y) == IF IsLeap(y) THEN 366 ELSE 365

DaysInMonth(y, m) ==
    IF m = 2 THEN (IF IsLeap(y) THEN 29 ELSE 28)
    ELSE IF m \in {4, 6, 9, 11} THEN 30 ELSE 31

RECURSIVE MonthAndDay(_, _, _)
MonthAndDay(ord, y, m) ==
    IF ord < DaysInMonth(y, m) THEN <<y, m, ord + 1>>
    ELSE MonthAndDay(ord - DaysInMonth(y, m), y, m + 1)

RECURSIVE YearMonthDay(_, _)
YearMonthDay(ord, y) ==
    IF ord < DaysInYear(y) THEN MonthAndDay(ord, y, 1)
    ELSE YearMonthDay(ord - DaysInYear(y), y + 1)

\* date.strftime("%Y-%m-%d"): the zero-padded fields, as <<year, month, day>>
strftime_Ymd(t) == YearMonthDay(t \div Day, 2026)

RECURSIVE DaysBeforeMonth(_, _)
DaysBeforeMonth(y, m) ==
    IF m = 1 THEN 0 ELSE DaysBeforeMonth(y, m - 1) + DaysInMonth(y, m - 1)

RECURSIVE DaysBeforeYear(_)
DaysBeforeYear(y) ==
    IF y = 2026 THEN 0 ELSE DaysBeforeYear(y - 1) + DaysInYear(y - 1)

\* datetime(y, m, d, H, M, S)
At(y, m, d, H, M, S) ==
    (DaysBeforeYear(y) + DaysBeforeMonth(y, m) + (d - 1)) * Day
        + H * Hour + M * Minute + S

Colon == 10

\* t.strftime("%H:%M")
strftime_HM(t) ==
    LET h == (t % Day) \div Hour
        m == (t % Hour) \div Minute
    IN  <<h \div 10, h % 10, Colon, m \div 10, m % 10>>

\* datetime.strptime(s, "%H:%M"), as the offset from that datetime's midnight
strptime_HM(s) == (s[1] * 10 + s[2]) * Hour + (s[4] * 10 + s[5]) * Minute

\* datetime.strptime(f"{date} {time}", "%Y-%m-%d %H:%M")
strptime_Ymd_HM(date, time) ==
    At(date[1], date[2], date[3], 0, 0, 0) + strptime_HM(time)

\* Python's str < str: the first differing character decides, a proper prefix is less
RECURSIVE StrLess(_, _)
StrLess(a, b) ==
    IF b = <<>> THEN FALSE
    ELSE IF a = <<>> THEN TRUE
    ELSE IF Head(a) # Head(b) THEN Head(a) < Head(b)
    ELSE StrLess(Tail(a), Tail(b))

StrLeq(a, b) == a = b \/ StrLess(a, b)

DayNames ==
    <<"monday", "tuesday", "wednesday", "thursday", "friday", "saturday", "sunday">>

\* date.strftime("%A").lower(); 2026-01-01 is a Thursday
day_name(t) == DayNames[(((t \div Day) + 3) % 7) + 1]

(***************************************************************************)
(* booking_config.py: the configuration.                                   *)
(***************************************************************************)
HM(h, m) == <<h \div 10, h % 10, Colon, m \div 10, m % 10>>

Open(start, end) == [open |-> TRUE, start |-> start, end |-> end]

\* a weekday mapped to None
Closed == [open |-> FALSE, start |-> HM(0, 0), end |-> HM(0, 0)]

WORK_HOURS ==
    [d \in {DayNames[i] : i \in 1..7} |->
        IF d \in {"saturday", "sunday"} THEN Closed ELSE Open(HM(9, 0), HM(17, 0))]

SLOT_DURATION_MINUTES == 30

MIN_ADVANCE_HOURS == 24

MAX_ADVANCE_DAYS == 30

MAX_BOOKINGS_PER_DAY == 8

BLACKOUT_DATES == {<<2026, 1, 1>>, <<2026, 5, 1>>, <<2026, 12, 25>>, <<2026, 12, 26>>}

LUNCH_BREAK == [set |-> TRUE, start |-> HM(12, 0), end |-> HM(13, 0)]

\* LUNCH_BREAK = None (the configuration's comment calls the break optional)
NoLunch == [set |-> FALSE, start |-> HM(0, 0), end |-> HM(0, 0)]

\* the configuration as the repository ships it
ConfiguredPolicy ==
    [ WORK_HOURS            |-> WORK_HOURS,
      SLOT_DURATION_MINUTES |-> SLOT_DURATION_MINUTES,
      BLACKOUT_DATES        |-> BLACKOUT_DATES,
      LUNCH_BREAK           |-> LUNCH_BREAK ]

(***************************************************************************)
(* Other values an operator can give the same configuration: a slot        *)
(* duration that does not divide the open interval, a closing time off the *)
(* slot grid, an open Saturday, no lunch break, another blackout date.     *)
(***************************************************************************)
Policies ==
    { ConfiguredPolicy,
      [ConfiguredPolicy EXCEPT !.SLOT_DURATION_MINUTES = 45],
      [ConfiguredPolicy EXCEPT
          !.WORK_HOURS = [WORK_HOURS EXCEPT !["friday"] = Open(HM(8, 30), HM(15, 45)),
                                            !["saturday"] = Open(HM(10, 0), HM(14, 0))],
          !.LUNCH_BREAK = NoLunch],
      [ConfiguredPolicy EXCEPT
          !.WORK_HOURS = [WORK_HOURS EXCEPT !["monday"] = Closed],
          !.SLOT_DURATION_MINUTES = 20,
          !.BLACKOUT_DATES = BLACKOUT_DATES \cup {<<2026, 3, 4>>},
          !.LUNCH_BREAK = [set |-> TRUE, start |-> HM(12, 30), end |-> HM(13, 15)]] }

(***************************************************************************)
(* booking_config.py: the policy functions.                                *)
(***************************************************************************)
is_working_day(date) == policy.WORK_HOURS[day_name(date)].open

get_work_hours_for_day(date) == policy.WORK_HOURS[day_name(date)]

is_blackout_date(date) == strftime_Ymd(date) \in policy.BLACKOUT_DATES

\* is_lunch_time with the break's end included
is_lunch_time_closed_end(time_str) ==
    IF ~policy.LUNCH_BREAK.set THEN FALSE
    ELSE StrLeq(policy.LUNCH_BREAK.start, time_str)
            /\ StrLeq(time_str, policy.LUNCH_BREAK.end)

is_lunch_time(time_str) ==
    IF ~policy.LUNCH_BREAK.set THEN FALSE
    ELSE StrLeq(policy.LUNCH_BREAK.start, time_str)
            /\ StrLess(time_str, policy.LUNCH_BREAK.end)

\* the while loop without its lunch test
RECURSIVE slot_loop_keeps_lunch(_, _, _)
slot_loop_keeps_lunch(current_time, end_time, slots) ==
    IF current_time < end_time
    THEN slot_loop_keeps_lunch(current_time + policy.SLOT_DURATION_MINUTES * Minute,
                               end_time, Append(slots, strftime_HM(current_time)))
    ELSE slots

\* the while loop of get_time_slots_for_day
RECURSIVE slot_loop(_, _, _)
slot_loop(current_time, end_time, slots) ==
    IF current_time < end_time
    THEN LET time_str == strftime_HM(current_time)
         IN  slot_loop(current_time + policy.SLOT_DURATION_MINUTES * Minute,
                       end_time,
                       IF ~is_lunch_time(time_str) THEN Append(slots, time_str)
                                                   ELSE slots)
    ELSE slots

\* get_time_slots_for_day without the blackout test
get_time_slots_for_day_no_blackout(date) ==
    IF ~is_working_day(date) THEN <<>>
    ELSE slot_loop(strptime_HM(get_work_hours_for_day(date).start),
                   strptime_HM(get_work_hours_for_day(date).end), <<>>)

get_time_slots_for_day(date) ==
    IF ~is_working_day(date) \/ is_blackout_date(date) THEN <<>>
    ELSE LET work_hours == get_work_hours_for_day(date)
         IN  IF ~work_hours.open THEN <<>>
             ELSE slot_loop(strptime_HM(work_hours.start),
                            strptime_HM(work_hours.end), <<>>)

Invalid(error) == [valid |-> FALSE, error |-> error]

Valid == [valid |-> TRUE, error |-> ""]

(***************************************************************************)
(* is_valid_booking_time.  The error is the message's kind:                *)
(*   too_soon      "Bookings must be made at least 24 hours in advance"    *)
(*   too_far       "Bookings cannot be made more than 30 days in advance"  *)
(*   not_working   "Selected day is not available for bookings"            *)
(*   blackout      "Selected date is not available"                        *)
(*   no_hours      "No working hours defined for this day"                 *)
(*   outside_hours "Selected time is outside working hours (..)"           *)
(*   lunch         "Selected time falls during lunch break"                *)
(***************************************************************************)
\* is_valid_booking_time with the working-hours test moved to the front
is_valid_booking_time_hours_first(booking_datetime) ==
    LET work_hours == get_work_hours_for_day(booking_datetime)
        time_str == strftime_HM(booking_datetime)
    IN  IF work_hours.open /\ ~(StrLeq(work_hours.start, time_str)
                                    /\ StrLess(time_str, work_hours.end))
             THEN Invalid("outside_hours")
        ELSE IF booking_datetime < now + MIN_ADVANCE_HOURS * Hour THEN Invalid("too_soon")
        ELSE IF booking_datetime > now + MAX_ADVANCE_DAYS * Day THEN Invalid("too_far")
        ELSE IF ~is_working_day(booking_datetime) THEN Invalid("not_working")
        ELSE IF is_blackout_date(booking_datetime) THEN Invalid("blackout")
        ELSE IF is_lunch_time(time_str) THEN Invalid("lunch")
        ELSE Valid

\* is_valid_booking_time rejecting the instant exactly MIN_ADVANCE_HOURS away
is_valid_booking_time_closed_advance(booking_datetime) ==
    LET work_hours == get_work_hours_for_day(booking_datetime)
        time_str == strftime_HM(booking_datetime)
    IN  IF booking_datetime <= now + MIN_ADVANCE_HOURS * Hour THEN Invalid("too_soon")
        ELSE IF booking_datetime > now + MAX_ADVANCE_DAYS * Day THEN Invalid("too_far")
        ELSE IF ~is_working_day(booking_datetime) THEN Invalid("not_working")
        ELSE IF is_blackout_date(booking_datetime) THEN Invalid("blackout")
        ELSE IF ~(StrLeq(work_hours.start, time_str)
                    /\ StrLess(time_str, work_hours.end))
             THEN Invalid("outside_hours")
        ELSE IF is_lunch_time(time_str) THEN Invalid("lunch")
        ELSE Valid

\* is_valid_booking_time that accepts only the times get_time_slots_for_day generates
is_valid_booking_time_on_grid(booking_datetime) ==
    LET min_advance == now + MIN_ADVANCE_HOURS * Hour
        max_advance == now + MAX_ADVANCE_DAYS * Day
        work_hours == get_work_hours_for_day(booking_datetime)
        time_str == strftime_HM(booking_datetime)
        slots == get_time_slots_for_day(booking_datetime)
    IN  IF booking_datetime < min_advance THEN Invalid("too_soon")
        ELSE IF booking_datetime > max_advance THEN Invalid("too_far")
        ELSE IF ~is_working_day(booking_datetime) THEN Invalid("not_working")
        ELSE IF is_blackout_date(booking_datetime) THEN Invalid("blackout")
        ELSE IF ~work_hours.open THEN Invalid("no_hours")
        ELSE IF ~(StrLeq(work_hours.start, time_str)
                    /\ StrLess(time_str, work_hours.end))
             THEN Invalid("outside_hours")
        ELSE IF is_lunch_time(time_str) THEN Invalid("lunch")
        ELSE IF ~\E k \in DOMAIN slots : slots[k] = time_str THEN Invalid("off_grid")
        ELSE Valid

is_valid_booking_time(booking_datetime) ==
    LET min_advance == now + MIN_ADVANCE_HOURS * Hour
        max_advance == now + MAX_ADVANCE_DAYS * Day
        work_hours == get_work_hours_for_day(booking_datetime)
        time_str == strftime_HM(booking_datetime)
    IN  IF booking_datetime < min_advance THEN Invalid("too_soon")
        ELSE IF booking_datetime > max_advance THEN Invalid("too_far")
        ELSE IF ~is_working_day(booking_datetime) THEN Invalid("not_working")
        ELSE IF is_blackout_date(booking_datetime) THEN Invalid("blackout")
        ELSE IF ~work_hours.open THEN Invalid("no_hours")
        ELSE IF ~(StrLeq(work_hours.start, time_str)
                    /\ StrLess(time_str, work_hours.end))
             THEN Invalid("outside_hours")
        ELSE IF is_lunch_time(time_str) THEN Invalid("lunch")
        ELSE Valid

(***************************************************************************)
(* The services.  A credential is a record; creds = None and an absent     *)
(* token.json are NoCreds.  The provider's calendars are a bag of events:  *)
(* events.insert is not idempotent, so the same event can be held twice.   *)
(***************************************************************************)
\* no policy function applied yet
NoCall == [fn |-> "none", arg |-> 0, out |-> <<>>]

NoCreds == [present |-> FALSE, expiry |-> 0, refresh_token |-> FALSE]

Creds(expiry, refresh_token) ==
    [present |-> TRUE, expiry |-> expiry, refresh_token |-> refresh_token]

\* Credentials.expired
expired(c) == now >= c.expiry

\* the token set the provider issues: an access token good for an hour, a refresh token
IssuedCreds == Creds(now + Hour, TRUE)

\* one record of what a request did: a function entered and what it returned,
\* or an outbound call and whether it returned (ret) or raised (~ret)
Entry(op, ret, at) == [op |-> op, ret |-> ret, at |-> at]

\* the zones pytz.timezone knows; for any other name it raises UnknownTimeZoneError
KnownTimeZones == {"Europe/Luxembourg"}

Event(calendar, start, end) == [calendar |-> calendar, start |-> start, end |-> end]

\* events().list(calendarId, timeMin, timeMax): the events overlapping [timeMin, timeMax)
events_list(calendar, timeMin, timeMax) ==
    {e \in BagToSet(events) : e.calendar = calendar /\ e.end > timeMin /\ e.start < timeMax}

(***************************************************************************)
(* google_oauth_service.py                                                 *)
(***************************************************************************)
\* what open(token_path, 'w') and token.write do: "ok" writes the new token,
\* "refused" raises in open and leaves the file as it was, "torn" raises (or
\* the process dies) after open has truncated the file and before the write
\* is complete
SaveOutcomes == {"ok", "refused", "torn"}

\* token.json left without a complete token in it
TornToken == [present |-> TRUE, expiry |-> 0, refresh_token |-> FALSE]

\* _save_credentials: the file, holding old_file, is opened for writing in place
save_credentials(old_file, new_creds, save) ==
    [ok |-> save = "ok",
     token_file |-> CASE save = "ok" -> new_creds
                      [] save = "refused" -> old_file
                      [] OTHER -> TornToken]

\* _load_credentials, run by the constructor when the module is imported:
\* token is the content of token.json, refresh_ok whether creds.refresh succeeds,
\* save what rewriting token.json does. Neither call is guarded, so an
\* exception here leaves the import, and so the process, failed.
load_credentials(token, refresh_ok, save) ==
    IF ~token.present
    THEN [creds |-> NoCreds, service |-> FALSE, token_file |-> token, running |-> TRUE,
          trace |-> <<>>]
    ELSE IF expired(token) /\ token.refresh_token
    THEN IF ~refresh_ok
         THEN [creds |-> token, service |-> FALSE, token_file |-> token,
               running |-> FALSE, trace |-> << Entry("creds.refresh", FALSE, 0) >>]
         ELSE IF ~save_credentials(token, IssuedCreds, save).ok
         THEN [creds |-> IssuedCreds, service |-> FALSE,
               token_file |-> save_credentials(token, IssuedCreds, save).token_file,
               running |-> FALSE,
               trace |-> << Entry("creds.refresh", TRUE, 0),
                            Entry("_save_credentials", FALSE, 0) >>]
         ELSE [creds |-> IssuedCreds, service |-> TRUE, token_file |-> IssuedCreds,
               running |-> TRUE,
               trace |-> << Entry("creds.refresh", TRUE, 0),
                            Entry("_save_credentials", TRUE, 0) >>]
    ELSE [creds |-> token, service |-> TRUE, token_file |-> token, running |-> TRUE,
          trace |-> <<>>]

is_authorized == creds.present /\ service

\* check_conflicts that blocks the slot when the check cannot be made
check_conflicts_fail_closed(start_time, end_time, timezone_str, list_ok) ==
    IF timezone_str \notin KnownTimeZones
    THEN [ret |-> TRUE,
          trace |-> <<Entry("pytz.timezone", FALSE, start_time),
                      Entry("oauth_service.check_conflicts", TRUE, start_time)>>]
    ELSE IF ~service
    THEN [ret |-> TRUE,
          trace |-> <<Entry("oauth_service.check_conflicts", TRUE, start_time)>>]
    ELSE IF ~list_ok
    THEN [ret |-> TRUE,
          trace |-> <<Entry("oauth.events.list", FALSE, start_time),
                      Entry("oauth_service.check_conflicts", TRUE, start_time)>>]
    ELSE [ret |-> events_list("oauth", start_time, end_time) # {},
          trace |-> <<Entry("oauth.events.list", TRUE, start_time),
                      Entry("oauth_service.check_conflicts",
                            events_list("oauth", start_time, end_time) # {},
                            start_time)>>]

\* check_conflicts: every exception inside is caught and answered False
check_conflicts(start_time, end_time, timezone_str, list_ok) ==
    IF timezone_str \notin KnownTimeZones
    THEN [ret |-> FALSE,
          trace |-> <<Entry("pytz.timezone", FALSE, start_time),
                      Entry("oauth_service.check_conflicts", FALSE, start_time)>>]
    ELSE IF ~service
    THEN [ret |-> FALSE,
          trace |-> <<Entry("oauth_service.check_conflicts", FALSE, start_time)>>]
    ELSE IF ~list_ok
    THEN [ret |-> FALSE,
          trace |-> <<Entry("oauth.events.list", FALSE, start_time),
                      Entry("oauth_service.check_conflicts", FALSE, start_time)>>]
    ELSE LET items == events_list("oauth", start_time, end_time)
         IN  [ret |-> items # {},
              trace |-> <<Entry("oauth.events.list", TRUE, start_time),
                          Entry("oauth_service.check_conflicts", items # {}, start_time)>>]

Failure(error) ==
    [success |-> FALSE, error |-> error, message |-> "", meet_link |-> FALSE]

Success(message, meet_link) ==
    [success |-> TRUE, error |-> "", message |-> message, meet_link |-> meet_link]

\* what events().insert(..).execute() does: "error" raises, "ok" returns the
\* created event with its conference entry points, "ok_no_conference" without.
\* The provider rejects an event whose timeZone is no time zone.
InsertOutcomes == {"ok", "ok_no_conference", "error"}

insert_raises(form_data, insert) ==
    insert = "error" \/ form_data.timezone \notin KnownTimeZones

\* GoogleOAuthService.create_meeting that inserts without looking at the conflict check
oauth_create_meeting_ignores_conflict(form_data, list_ok, insert) ==
    LET meeting_datetime == strptime_Ymd_HM(form_data.meetingDate, form_data.meetingTime)
        end_datetime == meeting_datetime + 30 * Minute
        cc == check_conflicts(meeting_datetime, end_datetime, form_data.timezone, list_ok)
        entered == <<Entry("oauth_service.create_meeting", TRUE, meeting_datetime)>>
    IN  IF insert_raises(form_data, insert)
        THEN [result |-> Failure("exception"), events |-> events,
              trace |-> entered \o cc.trace
                          \o <<Entry("oauth.events.insert", FALSE, meeting_datetime)>>]
        ELSE [result |-> Success("Meeting scheduled with Google Meet", insert = "ok"),
              events |-> events (+) SetToBag({Event("oauth", meeting_datetime, end_datetime)}),
              trace |-> entered \o cc.trace
                          \o <<Entry("oauth.events.insert", TRUE, meeting_datetime)>>]

\* GoogleOAuthService.create_meeting
oauth_create_meeting(form_data, list_ok, insert) ==
    LET meeting_datetime == strptime_Ymd_HM(form_data.meetingDate, form_data.meetingTime)
        end_datetime == meeting_datetime + 30 * Minute
        cc == check_conflicts(meeting_datetime, end_datetime, form_data.timezone, list_ok)
        entered == <<Entry("oauth_service.create_meeting", TRUE, meeting_datetime)>>
    IN  IF ~is_authorized
        THEN [result |-> Failure("Not authorized"), events |-> events, trace |-> entered]
        ELSE IF cc.ret
        THEN [result |-> Failure("Time slot not available"), events |-> events,
              trace |-> entered \o cc.trace]
        ELSE IF insert_raises(form_data, insert)
        THEN [result |-> Failure("exception"), events |-> events,
              trace |-> entered \o cc.trace
                          \o <<Entry("oauth.events.insert", FALSE, meeting_datetime)>>]
        ELSE [result |-> Success("Meeting scheduled with Google Meet", insert = "ok"),
              events |-> events (+) SetToBag({Event("oauth", meeting_datetime, end_datetime)}),
              trace |-> entered \o cc.trace
                          \o <<Entry("oauth.events.insert", TRUE, meeting_datetime)>>]

(***************************************************************************)
(* google_calendar_service.py                                              *)
(***************************************************************************)
is_configured == sa_service

\* GoogleCalendarService.create_meeting that answers success whatever insert did
calendar_create_meeting_swallows_error(form_data, insert) ==
    LET meeting_datetime == strptime_Ymd_HM(form_data.meetingDate, form_data.meetingTime)
        end_datetime == meeting_datetime + 30 * Minute
    IN  [result |-> Success("Event created", FALSE),
         events |-> IF insert_raises(form_data, insert) THEN events
                    ELSE events (+) SetToBag({Event("service_account", meeting_datetime,
                                                    end_datetime)}),
         trace |-> <<Entry("calendar_service.create_meeting", TRUE, meeting_datetime),
                     Entry("service_account.events.insert",
                           ~insert_raises(form_data, insert), meeting_datetime)>>]

\* GoogleCalendarService.create_meeting that hands back a conference link
calendar_create_meeting_with_meet_link(form_data, insert) ==
    LET meeting_datetime == strptime_Ymd_HM(form_data.meetingDate, form_data.meetingTime)
        end_datetime == meeting_datetime + 30 * Minute
        entered == <<Entry("calendar_service.create_meeting", TRUE, meeting_datetime)>>
    IN  IF ~sa_service
        THEN [result |-> Failure("Service account not configured"), events |-> events,
              trace |-> entered]
        ELSE IF insert_raises(form_data, insert)
        THEN [result |-> Failure("exception"), events |-> events,
              trace |-> entered
                          \o <<Entry("service_account.events.insert", FALSE, meeting_datetime)>>]
        ELSE [result |-> Success("Event created", insert = "ok"),
              events |-> events (+) SetToBag({Event("service_account", meeting_datetime,
                                                    end_datetime)}),
              trace |-> entered
                          \o <<Entry("service_account.events.insert", TRUE, meeting_datetime)>>]

\* GoogleCalendarService.create_meeting that refuses a window already holding an event
calendar_create_meeting_refuses_taken(form_data, insert) ==
    LET meeting_datetime == strptime_Ymd_HM(form_data.meetingDate, form_data.meetingTime)
        end_datetime == meeting_datetime + 30 * Minute
        entered == <<Entry("calendar_service.create_meeting", TRUE, meeting_datetime)>>
    IN  IF ~sa_service
        THEN [result |-> Failure("Service account not configured"), events |-> events,
              trace |-> entered]
        ELSE IF events_list("service_account", meeting_datetime, end_datetime) # {}
        THEN [result |-> Failure("Time slot not available"), events |-> events,
              trace |-> entered]
        ELSE IF insert_raises(form_data, insert)
        THEN [result |-> Failure("exception"), events |-> events,
              trace |-> entered
                          \o <<Entry("service_account.events.insert", FALSE, meeting_datetime)>>]
        ELSE [result |-> Success("Event created", FALSE),
              events |-> events (+) SetToBag({Event("service_account", meeting_datetime,
                                                    end_datetime)}),
              trace |-> entered
                          \o <<Entry("service_account.events.insert", TRUE, meeting_datetime)>>]

\* GoogleCalendarService.create_meeting
calendar_create_meeting(form_data, insert) ==
    LET meeting_datetime == strptime_Ymd_HM(form_data.meetingDate, form_data.meetingTime)
        end_datetime == meeting_datetime + 30 * Minute
        entered == <<Entry("calendar_service.create_meeting", TRUE, meeting_datetime)>>
    IN  IF ~sa_service
        THEN [result |-> Failure("Service account not configured"), events |-> events,
              trace |-> entered]
        ELSE IF insert_raises(form_data, insert)
        THEN [result |-> Failure("exception"), events |-> events,
              trace |-> entered
                          \o <<Entry("service_account.events.insert", FALSE, meeting_datetime)>>]
        ELSE [result |-> Success("Event created", FALSE),
              events |-> events (+) SetToBag({Event("service_account", meeting_datetime,
                                                    end_datetime)}),
              trace |-> entered
                          \o <<Entry("service_account.events.insert", TRUE, meeting_datetime)>>]

(***************************************************************************)
(* main.py: the handlers.  Each is an async function that never awaits, so *)
(* the event loop runs it from its first line to its response with no      *)
(* other request in between.                                               *)
(***************************************************************************)
Resp(handler, status, detail, body) ==
    [handler |-> handler, status |-> status, detail |-> detail, body |-> body]

NoBody == [success |-> FALSE]

NoResponse == Resp("none", 0, "", NoBody)

\* strptime raises ValueError for a field out of range
WellFormedDate(date) ==
    date[2] \in 1..12 /\ date[3] \in 1..DaysInMonth(date[1], date[2])

WellFormedTime(time) ==
    time[1] * 10 + time[2] <= 23 /\ time[4] * 10 + time[5] <= 59

\* the strategy taken the other way round: the service account whenever configured
select_strategy_service_first ==
    IF is_configured THEN "service_account"
    ELSE IF is_authorized THEN "oauth"
    ELSE "none"

\* the strategy with no third branch: the service account whenever OAuth2 is not authorized
select_strategy_never_none ==
    IF is_authorized THEN "oauth" ELSE "service_account"

\* book_meeting: OAuth2 first, the service account as the fall-back
select_strategy ==
    IF is_authorized THEN "oauth"
    ELSE IF is_configured THEN "service_account"
    ELSE "none"

\* book_meeting that goes on to the strategy whatever the validator said
book_meeting_unvalidated(form_data, list_ok, insert) ==
    IF ~(WellFormedDate(form_data.meetingDate) /\ WellFormedTime(form_data.meetingTime))
    THEN [resp |-> Resp("book_meeting", 500, "Internal Server Error", NoBody),
          events |-> events, trace |-> <<>>]
    ELSE
    LET booking_datetime ==
            strptime_Ymd_HM(form_data.meetingDate, form_data.meetingTime)
        checked == is_valid_booking_time(booking_datetime)
        validated ==
            <<Entry("is_valid_booking_time", checked.valid, booking_datetime)>>
        asked ==
            validated
              \o <<Entry("oauth_service.is_authorized", is_authorized, 0)>>
              \o (IF is_authorized THEN <<>>
                  ELSE <<Entry("calendar_service.is_configured", is_configured, 0)>>)
        made == IF select_strategy = "oauth"
                THEN oauth_create_meeting(form_data, list_ok, insert)
                ELSE calendar_create_meeting(form_data, insert)
    IN  IF select_strategy = "none"
        THEN [resp |-> Resp("book_meeting", 503, "Google Calendar not configured", NoBody),
              events |-> events, trace |-> asked]
        ELSE IF ~made.result.success
        THEN [resp |-> Resp("book_meeting", 500, made.result.error, NoBody),
              events |-> made.events, trace |-> asked \o made.trace]
        ELSE [resp |-> Resp("book_meeting", 200, "",
                            [success |-> TRUE, message |-> made.result.message,
                             meet_link |-> made.result.meet_link]),
              events |-> made.events, trace |-> asked \o made.trace]

\* the events, counted with their copies, that start on the date (a day number)
EventsOnDate(d) ==
    BagCardinality([e \in {x \in BagToSet(events) : x.start \div Day = d}
                      |-> CopiesIn(e, events)])

\* book_meeting that refuses a date already holding MAX_BOOKINGS_PER_DAY events
book_meeting_capped(form_data, list_ok, insert) ==
    IF ~(WellFormedDate(form_data.meetingDate) /\ WellFormedTime(form_data.meetingTime))
    THEN [resp |-> Resp("book_meeting", 500, "Internal Server Error", NoBody),
          events |-> events, trace |-> <<>>]
    ELSE
    LET booking_datetime ==
            strptime_Ymd_HM(form_data.meetingDate, form_data.meetingTime)
        checked == is_valid_booking_time(booking_datetime)
        validated ==
            <<Entry("is_valid_booking_time", checked.valid, booking_datetime)>>
        asked ==
            validated
              \o <<Entry("oauth_service.is_authorized", is_authorized, 0)>>
              \o (IF is_authorized THEN <<>>
                  ELSE <<Entry("calendar_service.is_configured", is_configured, 0)>>)
        made == IF select_strategy = "oauth"
                THEN oauth_create_meeting(form_data, list_ok, insert)
                ELSE calendar_create_meeting(form_data, insert)
    IN  IF ~checked.valid
        THEN [resp |-> Resp("book_meeting", 400, checked.error, NoBody),
              events |-> events, trace |-> validated]
        ELSE IF EventsOnDate(booking_datetime \div Day) >= MAX_BOOKINGS_PER_DAY
        THEN [resp |-> Resp("book_meeting", 400, "day_full", NoBody),
              events |-> events, trace |-> validated]
        ELSE IF select_strategy = "none"
        THEN [resp |-> Resp("book_meeting", 503, "Google Calendar not configured", NoBody),
              events |-> events, trace |-> asked]
        ELSE IF ~made.result.success
        THEN [resp |-> Resp("book_meeting", 500, made.result.error, NoBody),
              events |-> made.events, trace |-> asked \o made.trace]
        ELSE [resp |-> Resp("book_meeting", 200, "",
                            [success |-> TRUE, message |-> made.result.message,
                             meet_link |-> made.result.meet_link]),
              events |-> made.events, trace |-> asked \o made.trace]

\* book_meeting(booking); list_ok and insert are what the provider does
book_meeting(form_data, list_ok, insert) ==
    IF ~(WellFormedDate(form_data.meetingDate) /\ WellFormedTime(form_data.meetingTime))
    THEN [resp |-> Resp("book_meeting", 500, "Internal Server Error", NoBody),
          events |-> events, trace |-> <<>>]
    ELSE
    LET booking_datetime ==
            strptime_Ymd_HM(form_data.meetingDate, form_data.meetingTime)
        checked == is_valid_booking_time(booking_datetime)
        validated ==
            <<Entry("is_valid_booking_time", checked.valid, booking_datetime)>>
        asked ==
            validated
              \o <<Entry("oauth_service.is_authorized", is_authorized, 0)>>
              \o (IF is_authorized THEN <<>>
                  ELSE <<Entry("calendar_service.is_configured", is_configured, 0)>>)
        made == IF select_strategy = "oauth"
                THEN oauth_create_meeting(form_data, list_ok, insert)
                ELSE calendar_create_meeting(form_data, insert)
    IN  IF ~checked.valid
        THEN [resp |-> Resp("book_meeting", 400, checked.error, NoBody),
              events |-> events, trace |-> validated]
        ELSE IF select_strategy = "none"
        THEN [resp |-> Resp("book_meeting", 503, "Google Calendar not configured", NoBody),
              events |-> events, trace |-> asked]
        ELSE IF ~made.result.success
        THEN [resp |-> Resp("book_meeting", 500, made.result.error, NoBody),
              events |-> made.events, trace |-> asked \o made.trace]
        ELSE [resp |-> Resp("book_meeting", 200, "",
                            [success |-> TRUE, message |-> made.result.message,
                             meet_link |-> made.result.meet_link]),
              events |-> made.events, trace |-> asked \o made.trace]

\* whether events().list raises for the check at this instant, under an outage
ListOk(outage, at) ==
    outage = "none" \/ (outage = "one" /\ at # At(2026, 3, 4, 10, 0, 0))

\* the loop over a day's possible slots that offers a slot whatever its conflict check said
RECURSIVE scan_slots_offers_taken(_, _, _, _, _)
scan_slots_offers_taken(date_str, possible_slots, i, outage, acc) ==
    IF i > Len(possible_slots) THEN acc
    ELSE
    LET time_slot == possible_slots[i]
        slot_datetime == strptime_Ymd_HM(date_str, time_slot)
        slot_end == slot_datetime + policy.SLOT_DURATION_MINUTES * Minute
        cc == check_conflicts(slot_datetime, slot_end, "Europe/Luxembourg",
                              ListOk(outage, slot_datetime))
    IN  IF slot_datetime < now
        THEN scan_slots_offers_taken(date_str, possible_slots, i + 1, outage, acc)
        ELSE scan_slots_offers_taken(date_str, possible_slots, i + 1, outage,
                        [free |-> Append(acc.free, time_slot),
                         trace |-> acc.trace \o cc.trace])

\* the loop over a day's possible slots that leaves out the slots within the advance notice
RECURSIVE scan_slots_min_advance(_, _, _, _, _)
scan_slots_min_advance(date_str, possible_slots, i, outage, acc) ==
    IF i > Len(possible_slots) THEN acc
    ELSE
    LET time_slot == possible_slots[i]
        slot_datetime == strptime_Ymd_HM(date_str, time_slot)
        slot_end == slot_datetime + policy.SLOT_DURATION_MINUTES * Minute
        cc == check_conflicts(slot_datetime, slot_end, "Europe/Luxembourg",
                              ListOk(outage, slot_datetime))
    IN  IF slot_datetime < now + MIN_ADVANCE_HOURS * Hour
        THEN scan_slots_min_advance(date_str, possible_slots, i + 1, outage, acc)
        ELSE scan_slots_min_advance(date_str, possible_slots, i + 1, outage,
                        [free |-> IF ~cc.ret THEN Append(acc.free, time_slot)
                                  ELSE acc.free,
                         trace |-> acc.trace \o cc.trace])

\* get_available_slots: the loop over a day's possible slots
RECURSIVE scan_slots(_, _, _, _, _)
scan_slots(date_str, possible_slots, i, outage, acc) ==
    IF i > Len(possible_slots) THEN acc
    ELSE
    LET time_slot == possible_slots[i]
        slot_datetime == strptime_Ymd_HM(date_str, time_slot)
        slot_end == slot_datetime + policy.SLOT_DURATION_MINUTES * Minute
        cc == check_conflicts(slot_datetime, slot_end, "Europe/Luxembourg",
                              ListOk(outage, slot_datetime))
    IN  IF slot_datetime < now
        THEN scan_slots(date_str, possible_slots, i + 1, outage, acc)
        ELSE scan_slots(date_str, possible_slots, i + 1, outage,
                        [free |-> IF ~cc.ret THEN Append(acc.free, time_slot)
                                  ELSE acc.free,
                         trace |-> acc.trace \o cc.trace])

\* get_available_slots: the loop over the days
RECURSIVE scan_days(_, _, _, _, _)
scan_days(start, days, day_offset, outage, acc) ==
    IF day_offset >= days THEN acc
    ELSE
    LET check_date == start + day_offset * Day
        date_str == strftime_Ymd(check_date)
        possible_slots == get_time_slots_for_day(check_date)
        day == scan_slots(date_str, possible_slots, 1, outage,
                          [free |-> <<>>, trace |-> <<>>])
    IN  scan_days(start, days, day_offset + 1, outage,
                  [available_slots |->
                       IF day.free # <<>>
                       THEN Append(acc.available_slots,
                                   [date |-> date_str, slots |-> day.free])
                       ELSE acc.available_slots,
                   trace |-> acc.trace \o day.trace])

Min(a, b) == IF a <= b THEN a ELSE b

\* get_available_slots that also answers when only the service account is configured
get_available_slots_degraded(start_date, days, outage) ==
    LET asked == <<Entry("oauth_service.is_authorized", is_authorized, 0)>>
        start == IF start_date.given
                 THEN At(start_date.date[1], start_date.date[2], start_date.date[3], 0, 0, 0)
                 ELSE ((now + MIN_ADVANCE_HOURS * Hour) \div Day) * Day
        found == scan_days(start, Min(days, MAX_ADVANCE_DAYS), 0, outage,
                           [available_slots |-> <<>>, trace |-> <<>>])
    IN  IF ~is_authorized /\ ~is_configured
        THEN [resp |-> Resp("get_available_slots", 503, "Calendar not configured", NoBody),
              trace |-> asked]
        ELSE IF start_date.given /\ ~WellFormedDate(start_date.date)
        THEN [resp |-> Resp("get_available_slots", 400, "Invalid date format", NoBody),
              trace |-> asked]
        ELSE [resp |-> Resp("get_available_slots", 200, "",
                            [available_slots |-> found.available_slots,
                             slot_duration_minutes |-> policy.SLOT_DURATION_MINUTES,
                             timezone |-> "Europe/Luxembourg"]),
              trace |-> asked
                          \o <<Entry("get_available_slots",
                                     Min(days, MAX_ADVANCE_DAYS) > 0, start)>>
                          \o found.trace]

\* get_available_slots(start_date, days); start_date.given is FALSE for no parameter.
\* The trace holds the start of the range and whether the range has a day in it.
get_available_slots(start_date, days, outage) ==
    LET asked == <<Entry("oauth_service.is_authorized", is_authorized, 0)>>
        start == IF start_date.given
                 THEN At(start_date.date[1], start_date.date[2], start_date.date[3], 0, 0, 0)
                 ELSE ((now + MIN_ADVANCE_HOURS * Hour) \div Day) * Day
        found == scan_days(start, Min(days, MAX_ADVANCE_DAYS), 0, outage,
                           [available_slots |-> <<>>, trace |-> <<>>])
    IN  IF ~is_authorized
        THEN [resp |-> Resp("get_available_slots", 503, "Calendar not configured", NoBody),
              trace |-> asked]
        ELSE IF start_date.given /\ ~WellFormedDate(start_date.date)
        THEN [resp |-> Resp("get_available_slots", 400, "Invalid date format", NoBody),
              trace |-> asked]
        ELSE [resp |-> Resp("get_available_slots", 200, "",
                            [available_slots |-> found.available_slots,
                             slot_duration_minutes |-> policy.SLOT_DURATION_MINUTES,
                             timezone |-> "Europe/Luxembourg"]),
              trace |-> asked
                          \o <<Entry("get_available_slots",
                                     Min(days, MAX_ADVANCE_DAYS) > 0, start)>>
                          \o found.trace]

\* authorize_from_code that forgets the credentials it held when the grant fails
authorize_from_code_resets(exchange, save) ==
    IF exchange = "ok" /\ save = "ok"
    THEN [raised |-> FALSE, creds |-> IssuedCreds, service |-> TRUE,
          token_file |-> IssuedCreds,
          trace |-> << Entry("Flow.from_client_secrets_file", TRUE, 0),
                       Entry("flow.fetch_token", TRUE, 0),
                       Entry("_save_credentials", TRUE, 0) >>]
    ELSE [raised |-> TRUE, creds |-> NoCreds, service |-> FALSE, token_file |-> token_file,
          trace |-> << Entry("Flow.from_client_secrets_file", exchange # "no_client_secrets", 0) >>]

\* authorize_from_code that removes token.json when the exchange is rejected
authorize_from_code_drops_token(exchange, save) ==
    IF exchange = "no_client_secrets"
    THEN [raised |-> TRUE, creds |-> creds, service |-> service, token_file |-> token_file,
          trace |-> << Entry("Flow.from_client_secrets_file", FALSE, 0) >>]
    ELSE IF exchange # "ok"
    THEN [raised |-> TRUE, creds |-> creds, service |-> service, token_file |-> NoCreds,
          trace |-> << Entry("Flow.from_client_secrets_file", TRUE, 0),
                       Entry("flow.fetch_token", FALSE, 0) >>]
    ELSE IF ~save_credentials(token_file, IssuedCreds, save).ok
    THEN [raised |-> TRUE, creds |-> IssuedCreds, service |-> service,
          token_file |-> save_credentials(token_file, IssuedCreds, save).token_file,
          trace |-> << Entry("Flow.from_client_secrets_file", TRUE, 0),
                       Entry("flow.fetch_token", TRUE, 0),
                       Entry("_save_credentials", FALSE, 0) >>]
    ELSE [raised |-> FALSE, creds |-> IssuedCreds, service |-> TRUE,
          token_file |-> IssuedCreds,
          trace |-> << Entry("Flow.from_client_secrets_file", TRUE, 0),
                       Entry("flow.fetch_token", TRUE, 0),
                       Entry("_save_credentials", TRUE, 0) >>]

\* authorize_from_code, as auth_callback runs it: exchange is what reading the
\* client secrets and fetch_token do, save what writing token.json does
authorize_from_code(exchange, save) ==
    IF exchange = "no_client_secrets"
    THEN [raised |-> TRUE, creds |-> creds, service |-> service, token_file |-> token_file,
          trace |-> << Entry("Flow.from_client_secrets_file", FALSE, 0) >>]
    ELSE IF exchange # "ok"
    THEN [raised |-> TRUE, creds |-> creds, service |-> service, token_file |-> token_file,
          trace |-> << Entry("Flow.from_client_secrets_file", TRUE, 0),
                       Entry("flow.fetch_token", FALSE, 0) >>]
    ELSE IF ~save_credentials(token_file, IssuedCreds, save).ok
    THEN [raised |-> TRUE, creds |-> IssuedCreds, service |-> service,
          token_file |-> save_credentials(token_file, IssuedCreds, save).token_file,
          trace |-> << Entry("Flow.from_client_secrets_file", TRUE, 0),
                       Entry("flow.fetch_token", TRUE, 0),
                       Entry("_save_credentials", FALSE, 0) >>]
    ELSE [raised |-> FALSE, creds |-> IssuedCreds, service |-> TRUE,
          token_file |-> IssuedCreds,
          trace |-> << Entry("Flow.from_client_secrets_file", TRUE, 0),
                       Entry("flow.fetch_token", TRUE, 0),
                       Entry("_save_credentials", TRUE, 0) >>]

(***************************************************************************)
(* The running service.                                                    *)
(***************************************************************************)
MaxEvents == 2
MaxTicks == 1
TickHours == 3
MaxDays == 1

StartNow == At(2026, 3, 2, 10, 0, 0)

TokenFiles ==
    { NoCreds, Creds(StartNow + Hour, TRUE), Creds(StartNow - Hour, TRUE),
      Creds(StartNow - Hour, FALSE) }

\* the booking forms submitted: the date, time and time zone fields
BookingRequests ==
    { [meetingDate |-> d, meetingTime |-> t, timezone |-> z] :
        d \in {<<2026, 3, 4>>},
        t \in {HM(10, 0), HM(11, 45), HM(12, 0), HM(25, 0)},
        z \in {"Europe/Luxembourg", "Mars/Phobos"} }
    \cup { [meetingDate |-> <<2026, 3, 3>>, meetingTime |-> HM(10, 0),
            timezone |-> "Europe/Luxembourg"] }

StartDates ==
    { [given |-> FALSE, date |-> <<0, 0, 0>>],
      [given |-> TRUE, date |-> <<2026, 3, 2>>],
      [given |-> TRUE, date |-> <<2026, 3, 4>>],
      [given |-> TRUE, date |-> <<2026, 13, 1>>] }

\* the calls that go to the provider
ProviderOps ==
    {"oauth.events.list", "oauth.events.insert", "service_account.events.insert"}

\* the provider calls a booking made, in order
ProviderCalls(called) ==
    SelectSeq(called, LAMBDA e : e.op \in ProviderOps)

\* a booking blocked in events().list or events().insert; list_ok is what its
\* conflict check's list did, once that has returned
Pending(stage, form_data, list_ok) ==
    [stage |-> stage, form_data |-> form_data, list_ok |-> list_ok]

NoPending ==
    Pending("none", [meetingDate |-> <<0, 0, 0>>, meetingTime |-> <<>>, timezone |-> ""],
            TRUE)

Init ==
    /\ now = StartNow
    /\ policy = ConfiguredPolicy
    /\ call = NoCall
    /\ \E token \in TokenFiles, refresh_ok \in BOOLEAN, save \in SaveOutcomes :
          LET loaded == load_credentials(token, refresh_ok, save)
          IN  /\ creds = loaded.creds
              /\ service = loaded.service
              /\ token_file = loaded.token_file
              /\ running = loaded.running
              /\ trace = loaded.trace
    /\ sa_service \in BOOLEAN
    /\ events = EmptyBag
    /\ resp = NoResponse
    /\ pending = NoPending

\* the handlers are coroutines that never await and call the provider with the
\* blocking execute(): the event loop takes the next request only when the
\* handler it is running has returned and its response is sent
Idle == resp = NoResponse /\ pending = NoPending

\* book_meeting from its first line to its first provider call, or to its
\* response when it makes none
StartBooking(form_data) ==
    /\ running /\ Idle
    /\ LET done == book_meeting(form_data, TRUE, "ok")
           calls == ProviderCalls(done.trace)
       IN  IF calls = <<>>
           THEN /\ resp' = done.resp
                /\ trace' = done.trace
                /\ UNCHANGED pending
           ELSE /\ pending' = Pending(calls[1].op, form_data, TRUE)
                /\ UNCHANGED <<resp, trace>>
    /\ UNCHANGED <<now, policy, call, creds, service, token_file, sa_service, running,
                   events>>

BookMeeting ==
    /\ BagCardinality(events) < MaxEvents
    /\ \E form_data \in BookingRequests : StartBooking(form_data)

\* events().list of the conflict check returns or raises: the booking goes
\* on to its insert, or to the response when the slot is taken
ListReturns ==
    /\ pending.stage = "oauth.events.list"
    /\ \E list_ok \in BOOLEAN :
          LET done == book_meeting(pending.form_data, list_ok, "ok")
              calls == ProviderCalls(done.trace)
          IN  IF Len(calls) > 1
              THEN /\ pending' = Pending(calls[2].op, pending.form_data, list_ok)
                   /\ UNCHANGED <<resp, trace>>
              ELSE /\ resp' = done.resp
                   /\ trace' = done.trace
                   /\ pending' = NoPending
    /\ UNCHANGED <<now, policy, call, creds, service, token_file, sa_service, running,
                   events>>

\* events().insert returns or raises: the booking runs to its response
InsertReturns ==
    /\ pending.stage \in {"oauth.events.insert", "service_account.events.insert"}
    /\ \E insert \in InsertOutcomes :
          LET done == book_meeting(pending.form_data, pending.list_ok, insert)
          IN  /\ resp' = done.resp
              /\ events' = done.events
              /\ trace' = done.trace
    /\ pending' = NoPending
    /\ UNCHANGED <<now, policy, call, creds, service, token_file, sa_service, running>>

GetAvailableSlots ==
    /\ running /\ Idle
    /\ \E start_date \in StartDates, days \in 0..MaxDays,
          outage \in {"none", "one", "all"} :
          LET done == get_available_slots(start_date, days, outage)
          IN  /\ resp' = done.resp
              /\ trace' = done.trace
    /\ UNCHANGED <<now, policy, call, creds, service, token_file, sa_service, running,
                   pending,
                   events>>

AuthCallback ==
    /\ running /\ Idle
    /\ \E exchange \in {"ok", "rejected", "no_client_secrets"}, save \in SaveOutcomes :
          LET done == authorize_from_code(exchange, save)
          IN  /\ creds' = done.creds
              /\ service' = done.service
              /\ token_file' = done.token_file
              /\ resp' = IF done.raised
                         THEN Resp("auth_callback", 500, "Authorization Failed", NoBody)
                         ELSE Resp("auth_callback", 200, "Authorization Successful", NoBody)
              /\ trace' = done.trace
    /\ UNCHANGED <<now, policy, call, sa_service, running, events, pending>>

Status ==
    /\ running /\ Idle
    /\ resp' = Resp("status", 200, "",
                    [service_account |-> is_configured, oauth2 |-> is_authorized])
    /\ trace' = << Entry("calendar_service.is_configured", is_configured, 0),
                   Entry("oauth_service.is_authorized", is_authorized, 0) >>
    /\ UNCHANGED <<now, policy, call, creds, service, token_file, sa_service, running,
                   pending,
                   events>>

\* the wall clock advances between requests
Tick ==
    /\ Idle
    /\ now < StartNow + MaxTicks * TickHours * Hour
    /\ now' = now + TickHours * Hour
    /\ UNCHANGED <<policy, call, creds, service, token_file, sa_service, running,
                   pending,
                   events, resp, trace>>

\* the response leaves; the handler's coroutine is done
Respond ==
    /\ resp # NoResponse
    /\ resp' = NoResponse
    /\ trace' = <<>>
    /\ UNCHANGED <<now, policy, call, creds, service, token_file, sa_service, running,
                   pending,
                   events>>

Next ==
    \/ BookMeeting \/ ListReturns \/ InsertReturns
    \/ GetAvailableSlots \/ AuthCallback \/ Status \/ Tick \/ Respond

(***************************************************************************)
(* The policy functions applied to inputs: the clock and the configuration *)
(* are drawn at the start, then the validator is applied to instants       *)
(* around the booking window and the slot generator to dates.              *)
(***************************************************************************)
GridMinutes == 15
DaysBefore == 1
DaysAfter == 2
LastDate == 364

Nows ==
    { At(2026, 3, 2, 10, 0, 0),
      At(2026, 4, 10, 13, 7, 42),
      At(2026, 12, 1, 16, 40, 0) }

\* the instants (to the minute, as a request gives them) the validator is tried on
Candidates ==
    LET today == now \div Day
    IN  { d * Day + k * GridMinutes * Minute :
            d \in (today - DaysBefore)..(today + MAX_ADVANCE_DAYS + DaysAfter),
            k \in 0..(((24 * 60) \div GridMinutes) - 1) }
        \cup { ((now + w) \div Minute) * Minute + e * Minute :
                 w \in {MIN_ADVANCE_HOURS * Hour, MAX_ADVANCE_DAYS * Day},
                 e \in {0, 1} }

ApplyValidate ==
    /\ call = NoCall
    /\ \E dt \in Candidates :
          call' = [fn |-> "is_valid_booking_time", arg |-> dt,
                   out |-> is_valid_booking_time(dt)]
    /\ UNCHANGED <<now, policy, creds, service, token_file, sa_service, running, events,
                   resp, trace, pending>>

ApplySlots ==
    /\ call = NoCall
    /\ \E d \in 0..LastDate :
          call' = [fn |-> "get_time_slots_for_day", arg |-> d * Day,
                   out |-> get_time_slots_for_day(d * Day)]
    /\ UNCHANGED <<now, policy, creds, service, token_file, sa_service, running, events,
                   resp, trace, pending>>

vars ==
    <<now, policy, call, creds, service, token_file, sa_service, running, events, resp,
      trace, pending>>

PolicyInit ==
    /\ now \in Nows
    /\ policy \in Policies
    /\ call = NoCall
    /\ creds = NoCreds
    /\ service = FALSE
    /\ token_file = NoCreds
    /\ sa_service = FALSE
    /\ running = TRUE
    /\ events = EmptyBag
    /\ resp = NoResponse
    /\ trace = <<>>
    /\ pending = NoPending

PolicyNext == ApplyValidate \/ ApplySlots

PolicySpec == PolicyInit /\ [][PolicyNext]_vars

Spec == Init /\ [][Next]_vars

(***************************************************************************)
(* One day booked slot after slot: OAuth2 is authorized and a client books *)
(* the generated slots of one date in order, a slot more than the          *)
(* configured number of bookings per day.                                  *)
(***************************************************************************)
ExtraBookings == 1

CapDate == <<2026, 3, 4>>

CapInit ==
    /\ now = StartNow
    /\ policy = ConfiguredPolicy
    /\ call = NoCall
    /\ creds = Creds(StartNow + Hour, TRUE)
    /\ service = TRUE
    /\ token_file = creds
    /\ sa_service = FALSE
    /\ running = TRUE
    /\ events = EmptyBag
    /\ resp = NoResponse
    /\ trace = <<>>
    /\ pending = NoPending

\* the next booking asks for the first generated slot not booked so far
BookNextSlot ==
    /\ BagCardinality(events) < MAX_BOOKINGS_PER_DAY + ExtraBookings
    /\ LET slots == get_time_slots_for_day(At(CapDate[1], CapDate[2], CapDate[3], 0, 0, 0))
       IN  /\ BagCardinality(events) < Len(slots)
           /\ StartBooking([meetingDate |-> CapDate,
                            meetingTime |-> slots[BagCardinality(events) + 1],
                            timezone |-> "Europe/Luxembourg"])

CapNext == BookNextSlot \/ ListReturns \/ InsertReturns \/ GetAvailableSlots \/ Respond

CapSpec == CapInit /\ [][CapNext]_vars

(***************************************************************************)
(* The policy rules stated on numbers: the weekday of the date, the date   *)
(* among the blackout dates, the time of day in seconds against the        *)
(* configured hours.                                                       *)
(***************************************************************************)
TimeOfDay(t) == t % Day

Hours(t) == policy.WORK_HOURS[DayNames[(((t \div Day) + 3) % 7) + 1]]

TooSoon(t) == t < now + 24 * 3600

TooFar(t) == t > now + 30 * 24 * 3600

NonWorkingDay(t) == ~Hours(t).open

BlackoutDay(t) ==
    \E b \in policy.BLACKOUT_DATES : (t \div Day) * Day = At(b[1], b[2], b[3], 0, 0, 0)

OutsideHours(t) ==
    ~(strptime_HM(Hours(t).start) <= TimeOfDay(t)
        /\ TimeOfDay(t) < strptime_HM(Hours(t).end))

InLunch(t) ==
    /\ policy.LUNCH_BREAK.set
    /\ strptime_HM(policy.LUNCH_BREAK.start) <= TimeOfDay(t)
    /\ TimeOfDay(t) < strptime_HM(policy.LUNCH_BREAK.end)

Checks(t) ==
    << <<"too_soon", TooSoon(t)>>, <<"too_far", TooFar(t)>>,
       <<"not_working", NonWorkingDay(t)>>, <<"blackout", BlackoutDay(t)>>,
       <<"outside_hours", OutsideHours(t)>>, <<"lunch", InLunch(t)>> >>

FirstFailing(t) ==
    LET failing == {i \in 1..6 : Checks(t)[i][2]}
    IN  IF failing = {} THEN Valid
        ELSE Invalid(Checks(t)[CHOOSE i \in failing : \A j \in failing : i <= j][1])

Validated == call.fn = "is_valid_booking_time"

Slotted == call.fn = "get_time_slots_for_day"

\* C5: the validator reports the first failing check in the order too soon,
\* too far out, non-working day, blackout date, outside hours, lunch break;
\* every instant gets exactly one of these six reasons or Valid.
C5_FirstFailingCheckWins ==
    Validated =>
        /\ call.out = FirstFailing(call.arg)
        /\ call.out.valid = (call.out.error = "")
        /\ call.out.error \in
             {"", "too_soon", "too_far", "not_working", "blackout", "outside_hours", "lunch"}

\* an instant both too soon and outside working hours, reported as too soon
C5_Witness ==
    /\ Validated
    /\ TooSoon(call.arg) /\ OutsideHours(call.arg) /\ ~NonWorkingDay(call.arg)
    /\ call.out = Invalid("too_soon")

\* C6: a date that is not a working day, or that is a blackout date, has no slots.
C6_ClosedDatesHaveNoSlots ==
    (Slotted /\ (NonWorkingDay(call.arg) \/ BlackoutDay(call.arg))) => call.out = <<>>

\* a blackout date on an open weekday, with no slots
C6_Witness ==
    /\ Slotted
    /\ BlackoutDay(call.arg) /\ ~NonWorkingDay(call.arg)
    /\ call.out = <<>>

\* C7: every generated slot starts inside the day's working hours and outside
\* the lunch break.
C7_SlotsInsideHoursOutsideLunch ==
    Slotted =>
        \A i \in 1..Len(call.out) :
            LET s == call.arg + strptime_HM(call.out[i])
            IN  /\ Hours(call.arg).open
                /\ ~OutsideHours(s)
                /\ ~InLunch(s)

\* a day whose slots run up to the lunch break and resume after it
C7_Witness ==
    /\ Slotted
    /\ policy.LUNCH_BREAK.set
    /\ \E i \in 1..(Len(call.out) - 1) :
          /\ strptime_HM(call.out[i]) < strptime_HM(policy.LUNCH_BREAK.start)
          /\ strptime_HM(call.out[i + 1]) >= strptime_HM(policy.LUNCH_BREAK.end)

\* C8: no generated slot extends past the closing time, whatever the policy:
\* every slot s has s + slot duration <= end of the working hours.
C8_NoPartialSlots ==
    Slotted =>
        \A i \in 1..Len(call.out) :
            strptime_HM(call.out[i]) + policy.SLOT_DURATION_MINUTES * 60
                <= strptime_HM(Hours(call.arg).end)

MondaySlots ==
    << HM(9, 0), HM(9, 30), HM(10, 0), HM(10, 30), HM(11, 0), HM(11, 30),
       HM(13, 0), HM(13, 30), HM(14, 0), HM(14, 30), HM(15, 0), HM(15, 30),
       HM(16, 0), HM(16, 30) >>

\* the policy of the scenario: Mon-Fri 09:00-17:00, 30-minute slots, lunch 12:00-13:00
ScenarioPolicy ==
    /\ \A d \in {"monday", "tuesday", "wednesday", "thursday", "friday"} :
          policy.WORK_HOURS[d] = [open |-> TRUE, start |-> HM(9, 0), end |-> HM(17, 0)]
    /\ \A d \in {"saturday", "sunday"} : ~policy.WORK_HOURS[d].open
    /\ policy.SLOT_DURATION_MINUTES = 30
    /\ policy.LUNCH_BREAK = [set |-> TRUE, start |-> HM(12, 0), end |-> HM(13, 0)]

IsScenarioMonday ==
    Slotted /\ ScenarioPolicy /\ (call.arg \div Day) % 7 = 4 /\ ~BlackoutDay(call.arg)

\* C9 (as stated): under the scenario's policy a non-blackout Monday has the
\* slots 09:00, 09:30, .., 11:30, 13:00, .., 16:30 in increasing order, 12:00
\* absent, and the sequence has 15 slots.
C9_MondayScenarioFifteen ==
    IsScenarioMonday
        => /\ \A i \in 1..(Len(call.out) - 1) :
                 strptime_HM(call.out[i]) < strptime_HM(call.out[i + 1])
           /\ \A i \in 1..Len(call.out) : call.out[i] # HM(12, 0)
           /\ Len(call.out) = 15

\* C9 (amended): under the scenario's policy a non-blackout Monday has the
\* slots 09:00, 09:30, .., 11:30, 13:00, .., 16:30 in this order, 12:00 and
\* 12:30 absent: 14 slots.
C9_MondayScenario ==
    IsScenarioMonday
        => /\ call.out = MondaySlots
           /\ \A i \in 1..Len(call.out) : call.out[i] \notin {HM(12, 0), HM(12, 30)}
           /\ Len(call.out) = 14

\* Monday 2026-03-02 under the configuration as shipped
C9_Witness ==
    /\ Slotted
    /\ policy = ConfiguredPolicy
    /\ call.arg = At(2026, 3, 2, 0, 0, 0)
    /\ call.out = MondaySlots

\* C10: an instant earlier than now + 24h is rejected as too soon; an instant
\* from now + 24h to now + 30 days on an open, non-blackout day, inside the
\* working hours and outside lunch, is valid.
C10_AdvanceNoticeWindow ==
    Validated =>
        /\ call.arg < now + 24 * 3600 => call.out = Invalid("too_soon")
        /\ ( /\ call.arg >= now + 24 * 3600
             /\ call.arg <= now + 30 * 24 * 3600
             /\ ~NonWorkingDay(call.arg) /\ ~BlackoutDay(call.arg)
             /\ ~OutsideHours(call.arg) /\ ~InLunch(call.arg) ) => call.out = Valid
        /\ (now = At(2026, 3, 2, 10, 0, 0) /\ call.arg = At(2026, 3, 2, 15, 0, 0))
              => call.out = Invalid("too_soon")
        /\ (now = At(2026, 3, 2, 10, 0, 0) /\ call.arg = At(2026, 3, 4, 10, 0, 0)
              /\ policy = ConfiguredPolicy) => call.out = Valid

\* now = 2026-03-02T10:00 and 2026-03-04T10:00 found valid
C10_Witness ==
    /\ Validated
    /\ now = At(2026, 3, 2, 10, 0, 0)
    /\ call.arg = At(2026, 3, 4, 10, 0, 0)
    /\ call.out = Valid

(***************************************************************************)
(* Properties of the booking flow, read off the last response and the      *)
(* record of what the request did.                                         *)
(***************************************************************************)
Booked == resp.handler = "book_meeting"

Did(op) == \E i \in DOMAIN trace : trace[i].op = op

DidRet(op, ret) == \E i \in DOMAIN trace : trace[i].op = op /\ trace[i].ret = ret

UsedOAuthPath == Did("oauth_service.create_meeting")

UsedServicePath ==
    Did("calendar_service.create_meeting") \/ Did("service_account.events.insert")

\* the request passed validation and reached the choice of a strategy
Dispatched == Booked /\ Did("oauth_service.is_authorized")

\* C1: a booking takes the OAuth path whenever the OAuth service is authorized,
\* and then never touches the service account, also when the OAuth path fails;
\* it takes the service-account path only when the OAuth service is not
\* authorized and the service account is configured.
C1_StrictPrecedence ==
    Dispatched =>
        /\ DidRet("oauth_service.is_authorized", is_authorized)
        /\ is_authorized => (UsedOAuthPath /\ ~UsedServicePath)
        /\ UsedServicePath => (~is_authorized /\ is_configured /\ ~UsedOAuthPath)
        /\ (~is_authorized /\ is_configured) => UsedServicePath

\* both paths available, the OAuth path failed, the service account untouched
C1_Witness ==
    /\ Dispatched
    /\ is_authorized /\ is_configured
    /\ resp.status = 500
    /\ UsedOAuthPath /\ ~UsedServicePath

\* C2: on the OAuth path, when the conflict check on [start, start + 30 min)
\* reports an overlapping event, the booking fails as slot taken and no
\* events.insert is issued.
C2_ConflictBlocksInsert ==
    (Booked /\ DidRet("oauth_service.check_conflicts", TRUE)) =>
        /\ resp.status = 500
        /\ resp.detail = "Time slot not available"
        /\ ~Did("oauth.events.insert")
        /\ ~Did("service_account.events.insert")
        /\ \A i \in DOMAIN trace :
              trace[i].op = "oauth_service.check_conflicts" =>
                  \E e \in BagToSet(events) :
                      /\ e.calendar = "oauth"
                      /\ e.start < trace[i].at + 30 * 60
                      /\ e.end > trace[i].at

\* a booking refused because the slot is taken
C2_Witness ==
    /\ Booked
    /\ UsedOAuthPath
    /\ DidRet("oauth_service.check_conflicts", TRUE)
    /\ resp.detail = "Time slot not available"

InsertOps == {"oauth.events.insert", "service_account.events.insert"}

\* C3: a booking is answered with success only when events.insert returned;
\* when the insert raises, on either path, the answer is an error.
C3_FailClosedCreation ==
    Booked =>
        /\ resp.status = 200 =>
              /\ resp.body.success
              /\ \E i \in DOMAIN trace :
                    /\ trace[i].op \in InsertOps /\ trace[i].ret
                    /\ \E e \in BagToSet(events) : e.start = trace[i].at
        /\ (\E i \in DOMAIN trace : trace[i].op \in InsertOps /\ ~trace[i].ret) =>
              /\ resp.status = 500
              /\ resp.detail = "exception"
              /\ ~resp.body.success

\* the service-account insert raised and the booking was answered with an error
C3_Witness ==
    /\ Booked
    /\ DidRet("service_account.events.insert", FALSE)
    /\ resp.status = 500

Listed(t) ==
    \E j \in DOMAIN resp.body.available_slots :
        /\ resp.body.available_slots[j].date = strftime_Ymd(t)
        /\ \E k \in DOMAIN resp.body.available_slots[j].slots :
              resp.body.available_slots[j].slots[k] = strftime_HM(t)

CheckRaised(i) == trace[i].op \in {"pytz.timezone", "oauth.events.list"} /\ ~trace[i].ret

\* C4: when the time zone lookup or events.list raises inside check_conflicts,
\* check_conflicts returns False and the request goes on: the availability
\* query lists the slot and the booking reaches events.insert.
C4_FailOpenConflictCheck ==
    /\ \A i \in DOMAIN trace :
          CheckRaised(i) =>
              /\ i + 1 \in DOMAIN trace
              /\ trace[i + 1] = Entry("oauth_service.check_conflicts", FALSE, trace[i].at)
    /\ (Booked /\ \E i \in DOMAIN trace : CheckRaised(i)) => Did("oauth.events.insert")
    /\ (resp.handler = "get_available_slots" /\ \E i \in DOMAIN trace : CheckRaised(i)) =>
          /\ resp.status = 200
          /\ \A i \in DOMAIN trace : CheckRaised(i) => Listed(trace[i].at)

\* events.list raised for a slot that holds an event, and the slot is offered
C4_Witness ==
    /\ resp.handler = "get_available_slots"
    /\ \E i \in DOMAIN trace :
          /\ CheckRaised(i)
          /\ Listed(trace[i].at)
          /\ \E e \in BagToSet(events) :
                e.calendar = "oauth" /\ e.start = trace[i].at

(***************************************************************************)
(* The credential manager: what is_authorized answers, and the state the   *)
(* credentials are in when it answers.                                     *)
(***************************************************************************)
Granted == resp.handler = "auth_callback" /\ resp.status = 200

Asked(i) == trace[i].op = "oauth_service.is_authorized"

\* C11: right after a successful grant is_authorized holds, and once the
\* access token's expiry has passed a further is_authorized call refreshes the
\* credentials: it answers true and leaves them unexpired.
C11_GrantRoundTrip ==
    /\ Granted => is_authorized
    /\ \A i \in DOMAIN trace :
          (Asked(i) /\ creds.present /\ creds.refresh_token /\ service)
             => (trace[i].ret /\ ~expired(creds))

\* C12: is_authorized answers true exactly when the credentials are held,
\* the client is built and the access token is unexpired, so the OAuth path is
\* never taken with an expired credential.
C12_AuthorizedIffUsable ==
    /\ \A i \in DOMAIN trace :
          Asked(i) => (trace[i].ret <=> (creds.present /\ service /\ ~expired(creds)))
    /\ UsedOAuthPath => ~expired(creds)

\* C13: loading a token that is expired and has a refresh token: when the
\* refresh succeeds the new token is persisted and the manager is authorized;
\* when the refresh fails the load still completes, unauthorized with the
\* expired credentials, and the process serves requests.
C13_LoadRefreshDegrades ==
    /\ (DidRet("creds.refresh", TRUE) /\ DidRet("_save_credentials", TRUE))
          => (running /\ is_authorized /\ ~expired(creds) /\ token_file = creds)
    /\ DidRet("creds.refresh", FALSE)
          => (running /\ creds.present /\ expired(creds) /\ ~is_authorized)

\* C14: a grant whose tokens were obtained but whose token.json write failed
\* reports the failure and still leaves the manager authorized in memory.
C14_FailedWriteKeepsAuthorization ==
    (resp.handler = "auth_callback" /\ DidRet("flow.fetch_token", TRUE)
        /\ DidRet("_save_credentials", FALSE))
       => (resp.status = 500 /\ creds.present /\ ~expired(creds) /\ is_authorized)

(***************************************************************************)
(* The booking endpoint's outcomes.                                        *)
(***************************************************************************)
Confirmed == Booked /\ resp.status = 200

\* C15: a booking taken by the service account while OAuth2 is not authorized
\* succeeds once its insert returns, and its confirmation has no conference
\* link; a confirmation carries a link only when the OAuth2 path inserted.
C15_MeetLinkOnlyViaOAuth ==
    /\ (Dispatched /\ ~is_authorized /\ is_configured) => UsedServicePath
    /\ (Booked /\ DidRet("service_account.events.insert", TRUE))
          => (Confirmed /\ resp.body.success /\ ~resp.body.meet_link)
    /\ (Confirmed /\ resp.body.meet_link)
          => (UsedOAuthPath /\ DidRet("oauth.events.insert", TRUE))

C15_Witness ==
    /\ Confirmed /\ ~is_authorized /\ is_configured
    /\ DidRet("service_account.events.insert", TRUE)
    /\ ~resp.body.meet_link

\* C16: a policy-valid booking with OAuth2 not authorized and no service
\* account is answered 503 "not configured" without any provider call, and a
\* booking is answered 503 in no other case.
C16_NotConfiguredIs503 ==
    /\ (Dispatched /\ ~is_authorized /\ ~is_configured)
          => /\ resp.status = 503
             /\ resp.detail = "Google Calendar not configured"
             /\ \A i \in DOMAIN trace : trace[i].op \notin ProviderOps
             /\ ~UsedOAuthPath /\ ~UsedServicePath
    /\ (Booked /\ resp.status = 503)
          => (DidRet("is_valid_booking_time", TRUE) /\ ~is_authorized /\ ~is_configured)

C16_Witness ==
    /\ Booked /\ resp.status = 503
    /\ DidRet("is_valid_booking_time", TRUE)
    /\ DidRet("oauth_service.is_authorized", FALSE)
    /\ DidRet("calendar_service.is_configured", FALSE)

SlotTaken == Booked /\ DidRet("oauth_service.check_conflicts", TRUE)

ProviderFault ==
    Booked /\ \E i \in DOMAIN trace : trace[i].op \in InsertOps /\ ~trace[i].ret

\* C17: a policy rejection is answered 400 with the validator's reason, and a
\* conflict found at creation time is answered with a 409 or 503, a status
\* other than the one a provider fault during creation is answered with.
C17_FailureKindsDistinct ==
    /\ (Booked /\ DidRet("is_valid_booking_time", FALSE))
          => /\ resp.status = 400
             /\ resp.detail = is_valid_booking_time(trace[1].at).error
    /\ ProviderFault => resp.status = 500
    /\ SlotTaken => resp.status \in {409, 503}

\* C18: a booking starts with the validator's verdict on the requested
\* instant against the clock of that moment; when the verdict is a rejection
\* the answer is 400 and nothing else was called: no strategy test, no
\* conflict check, no insert.
C18_ValidatedBeforeStrategy ==
    /\ (Booked /\ trace # <<>>)
          => /\ trace[1].op = "is_valid_booking_time"
             /\ trace[1].ret = is_valid_booking_time(trace[1].at).valid
    /\ (Booked /\ DidRet("is_valid_booking_time", FALSE))
          => (resp.status = 400 /\ Len(trace) = 1)

\* a rejection of an instant that was bookable, and offered, when the process
\* started: the clock has moved on since
C18_Witness ==
    /\ Booked /\ resp.status = 400 /\ resp.detail = "too_soon"
    /\ DidRet("is_valid_booking_time", FALSE)
    /\ trace[1].at >= StartNow + MIN_ADVANCE_HOURS * Hour
    /\ now > StartNow

\* C19: once is_authorized holds, no request and no passing of time makes it
\* false again: not a booking, an availability query, a provider error, a
\* failed or repeated grant, or a failed token write.
C19_AuthorizedIsPermanent == [][is_authorized => is_authorized']_vars

\* an authorized manager after a repeated grant whose token write failed
C19_Witness ==
    /\ is_authorized
    /\ resp.handler = "auth_callback" /\ resp.status = 500
    /\ DidRet("_save_credentials", FALSE)

(***************************************************************************)
(* Bookings in flight.                                                     *)
(***************************************************************************)
\* a booking on the OAuth2 path whose conflict check has let it through and
\* whose insert has not returned
BetweenCheckAndInsert == pending.stage = "oauth.events.insert"

\* C20: while one booking is between its conflict check and its insert, a
\* second booking can be taken up and run its own conflict check, so that two
\* bookings for one window both pass the check before either has inserted.
C20_CheckThenCreateRace == BetweenCheckAndInsert => ENABLED BookMeeting

\* a request whose handler is waiting for the provider to answer
WaitingOnProvider == pending.stage # "none"

\* C21: while one request waits on the provider, another request can be taken
\* up and answered (the status request, which calls no provider, stands for it).
C21_SlowCallDoesNotStall == WaitingOnProvider => ENABLED Status

(***************************************************************************)
(* The token store.                                                        *)
(***************************************************************************)
\* C23: token.json always holds a complete token (the previous one or the new
\* one) or does not exist: never an empty or partly written file.
C23_TokenStoreAlwaysComplete == token_file # TornToken

(***************************************************************************)
(* The service-account path.                                               *)
(***************************************************************************)
ConflictCheckOps == {"pytz.timezone", "oauth.events.list", "oauth_service.check_conflicts"}

\* C24: a booking on the service-account path never looks at the calendar: it
\* always issues its insert, whatever the calendar holds, and when the insert
\* returns the booking is confirmed and the event is on the calendar; a second
\* identical booking adds a second event for the slot.
C24_ServicePathNeverChecks ==
    /\ UsedServicePath
          => /\ Did("service_account.events.insert")
             /\ \A i \in DOMAIN trace : trace[i].op \notin ConflictCheckOps
    /\ \A i \in DOMAIN trace :
          (Booked /\ trace[i].op = "service_account.events.insert" /\ trace[i].ret)
             => /\ Confirmed
                /\ CopiesIn(Event("service_account", trace[i].at, trace[i].at + 30 * Minute),
                            events) >= 1

\* a confirmed service-account booking leaving two events for one slot
C24_Witness ==
    /\ Confirmed /\ UsedServicePath
    /\ \E i \in DOMAIN trace :
          /\ trace[i].op = "service_account.events.insert"
          /\ CopiesIn(Event("service_account", trace[i].at, trace[i].at + 30 * Minute),
                      events) = 2

(***************************************************************************)
(* Grants.                                                                 *)
(***************************************************************************)
\* C25: a grant whose code exchange the provider rejects changes nothing: the
\* credentials, the client and token.json are as before the call, and the
\* process goes on serving.
C25_RejectedExchangeChangesNothing ==
    [][ (resp'.handler = "auth_callback"
           /\ \E i \in DOMAIN trace' : trace'[i].op = "flow.fetch_token" /\ ~trace'[i].ret)
        => /\ resp'.status = 500
           /\ creds' = creds /\ service' = service /\ token_file' = token_file
           /\ running' ]_vars

\* a rejected exchange on a manager that was authorized and still is
C25_Witness ==
    /\ resp.handler = "auth_callback" /\ resp.status = 500
    /\ DidRet("flow.fetch_token", FALSE)
    /\ is_authorized /\ token_file = creds

(***************************************************************************)
(* The bookings-per-day setting.                                           *)
(***************************************************************************)
Offered == resp.handler = "get_available_slots" /\ resp.status = 200

InSeq(x, seq) == \E k \in DOMAIN seq : seq[k] = x

Range(seq) == {seq[k] : k \in DOMAIN seq}

\* the instants an availability answer offers
OfferedInstants ==
    UNION { { strptime_Ymd_HM(resp.body.available_slots[i].date,
                              resp.body.available_slots[i].slots[j]) :
                j \in DOMAIN resp.body.available_slots[i].slots } :
            i \in DOMAIN resp.body.available_slots }

\* the instants whose conflict check answered ret
CheckedInstants(ret) ==
    { trace[k].at : k \in { n \in DOMAIN trace :
                              trace[n].op = "oauth_service.check_conflicts"
                                /\ trace[n].ret = ret } }

OfferedAt(at) == at \in OfferedInstants

WithinNotice(at) == at < now + MIN_ADVANCE_HOURS * Hour

Queried == resp.handler = "get_available_slots"

\* C29: the availability query is answered only when OAuth2 is authorized;
\* otherwise it is refused with 503 right after the is_authorized test, with
\* no slot generated or checked, whether or not the service account is
\* configured.
C29_AvailabilityNeedsOAuth ==
    /\ (Queried /\ ~is_authorized)
          => /\ resp.status = 503
             /\ trace = <<Entry("oauth_service.is_authorized", FALSE, 0)>>
    /\ (Queried /\ resp.status # 503) => DidRet("oauth_service.is_authorized", TRUE)

\* the query refused while the service account is configured and has taken a booking
C29_Witness ==
    /\ Queried /\ resp.status = 503
    /\ ~is_authorized /\ is_configured
    /\ \E e \in BagToSet(events) : e.calendar = "service_account"

(***************************************************************************)
(* The validator and the slot grid.                                        *)
(***************************************************************************)
OnGrid(t) == InSeq(strftime_HM(t), get_time_slots_for_day(t))

\* the fixed 30 minutes of a meeting starting at t reach into the lunch break
RunsIntoLunch(t) ==
    /\ policy.LUNCH_BREAK.set
    /\ TimeOfDay(t) < strptime_HM(policy.LUNCH_BREAK.start)
    /\ TimeOfDay(t) + 30 * Minute > strptime_HM(policy.LUNCH_BREAK.start)

\* the fixed 30 minutes of a meeting starting at t end after closing time
RunsPastClosing(t) == TimeOfDay(t) + 30 * Minute > strptime_HM(Hours(t).end)

\* C30: the validator accepts every time inside the advance window, on a
\* working day that is no blackout date, inside the working hours and outside
\* the lunch break, whether or not it is a generated slot.
C30_ValidatorIgnoresGrid ==
    Validated =>
       ((~TooSoon(call.arg) /\ ~TooFar(call.arg) /\ ~NonWorkingDay(call.arg)
           /\ ~BlackoutDay(call.arg) /\ ~OutsideHours(call.arg) /\ ~InLunch(call.arg))
          => call.out.valid)

\* an accepted time off the grid whose meeting reaches into the lunch break
C30_Witness ==
    /\ Validated /\ call.out.valid
    /\ ~OnGrid(call.arg)
    /\ RunsIntoLunch(call.arg)

====
